---- MODULE Spec2Model ----
(***************************************************************************)
(* Temporal sequence correction (processing/preprocess_normalize.py) and   *)
(* the cloudiness consistency check (processing/semantic_scene_            *)
(* consistency.py) of the VLM ODD annotation pipeline.                     *)
(*                                                                         *)
(* Python lists are modelled as TLA+ sequences.  The operators keep the    *)
(* source's 0-based indices: At(s, i) is s[i] of the source.               *)
(***************************************************************************)
EXTENDS Integers, Sequences, FiniteSets, TLC

VARIABLES
    \* ---- sequence smoother: one call and a second call on its result ----
    smoother,         \* which of the three functions is called
    sequence,         \* the caller's list, passed as `sequence`
    min_consecutive,  \* the threshold passed
    once,             \* the list returned by the first call
    twice,            \* the list returned by the call on `once`
    spc,              \* "ready" | "applied" | "reapplied"
    \* ---- cloudiness check, one scene group ----
    df,               \* the scene's three input columns (never written)
    out,              \* out's three columns and its check column
    clear_seq,        \* the sequences re-fetched after step 1
    partly_seq,
    overcast_seq,
    state_seq,        \* 0=Clear, 1=Partly, 2=Overcast, -1=invalid
    cpc,              \* "input" | "smoothed" | "enforced" | "done"
    \* ---- get_issue_labels on one sequence ----
    tg_sequence,      \* the sequence passed
    tg_labels,        \* the labels returned
    tg_pc,            \* "ready" | "labelled"
    \* ---- one check of the checker applied to a table ----
    tb_check,         \* which check runs
    tb_df,            \* the table passed: a list of rows, in table order
    tb_out,           \* the table returned, with the check's column
    tb_pc,            \* "ready" | "checked"
    \* ---- one run of the checker's main over a table's columns ----
    run_input,        \* the columns of the table read
    run_columns,      \* the columns of df_flags
    run_written,      \* the columns added or changed so far
    run_pc,           \* the check to run next | "saved" | "raised"
    \* ---- the iterative batch script ----
    iteration,        \* main's iteration
    batch_ids,        \* ids in the iteration's submitted-ids file, or NoFile
    invalid_results,  \* lines in the iteration's invalid-results file, or NoFile
    written,          \* lines in the iteration's batch request file, or NoFile
    not_completed,    \* batches of the iteration skipped as not completed
    not_downloaded,   \* batches of the iteration skipped on an error
    submission,       \* how the iteration's submit_batch ended
    bpc,              \* main's position
    \* ---- the review app: one session over the flagged samples ----
    indexes,          \* positions of the rows to review, in table order
    counter,          \* st.session_state.counter
    last_index,       \* config.json's last_index, as last saved
    visited,          \* positions of the rows whose Visited is True
    gui_pc            \* "displayed" | "stopped" | "IndexError"

smooth_vars == <<smoother, sequence, min_consecutive, once, twice, spc>>
cloud_vars == <<df, out, clear_seq, partly_seq, overcast_seq, state_seq, cpc>>
toggle_vars == <<tg_sequence, tg_labels, tg_pc>>
table_vars == <<tb_check, tb_df, tb_out, tb_pc>>
run_vars == <<run_input, run_columns, run_written, run_pc>>
batch_vars == <<iteration, batch_ids, invalid_results, written, not_completed,
                not_downloaded, submission, bpc>>
gui_vars == <<indexes, counter, last_index, visited, gui_pc>>
vars == <<smoother, sequence, min_consecutive, once, twice, spc,
          df, out, clear_seq, partly_seq, overcast_seq, state_seq, cpc,
          tg_sequence, tg_labels, tg_pc,
          tb_check, tb_df, tb_out, tb_pc,
          run_input, run_columns, run_written, run_pc,
          iteration, batch_ids, invalid_results, written, not_completed,
          not_downloaded, submission, bpc,
          indexes, counter, last_index, visited, gui_pc>>

\* the variables of the components a specification does not run
ToggleIdle ==
    /\ tg_sequence = <<>>
    /\ tg_labels = <<>>
    /\ tg_pc = "idle"

TableIdle ==
    /\ tb_check = "none"
    /\ tb_df = <<>>
    /\ tb_out = <<>>
    /\ tb_pc = "idle"

RunIdle ==
    /\ run_input = {}
    /\ run_columns = {}
    /\ run_written = {}
    /\ run_pc = "idle"

\* os.path.exists(path) is false
NoFile == -1

BatchIdle ==
    /\ iteration = 0
    /\ batch_ids = NoFile
    /\ invalid_results = NoFile
    /\ written = NoFile
    /\ not_completed = 0
    /\ not_downloaded = 0
    /\ submission = "none"
    /\ bpc = "idle"

GuiIdle ==
    /\ indexes = <<>>
    /\ counter = 0
    /\ last_index = 0
    /\ visited = {}
    /\ gui_pc = "idle"

\* ------------------------------------------------------------ bounds
MaxLen == 6      \* longest sequence handed to a smoother
MaxK == 4        \* largest min_consecutive
MaxRows == 5     \* most rows in a scene handed to the cloudiness check
MaxToggleRows == 5   \* most rows of a table handed to add_problem_flags
MaxLaneRows == 3     \* most rows of a table handed to flag_number_of_lanes
MaxFlatRows == 2     \* most rows of a table handed to a row-wise check
MaxCloudRows == 4    \* most rows of a table handed to the cloudiness check
MaxSmoothRows == 4   \* most rows of a table whose column is smoothed
MaxBatches == 2      \* most batch ids in the initial ids file
MaxInvalid == 2      \* most invalid lines one extraction finds
MaxIteration == 3    \* last iteration the script is followed to
MaxMissing == 2      \* most columns missing from the table a run reads

\* ------------------------------------------------------------ lists
At(s, i) == s[i + 1]
Put(s, i, v) == [s EXCEPT ![i + 1] = v]
\* for j in range(i, i + count): corrected[j] = v
Fill(s, i, count, v) ==
    [j \in 1..Len(s) |-> IF i <= j - 1 /\ j - 1 < i + count THEN v ELSE s[j]]
SeqsUpTo(S, lo, hi) == UNION {[1..n -> S] : n \in lo..hi}

NaN == "NaN"
isna(x) == x = NaN

\* the inner while loop of the three smoothers: the length of the block of
\* values equal to corrected[i] that starts at i
RECURSIVE block_count(_, _, _)
block_count(corrected, i, count) ==
    IF (i + count) < Len(corrected) /\ At(corrected, i + count) = At(corrected, i)
    THEN block_count(corrected, i, count + 1)
    ELSE count

\* ------------------------------------------------ correct_yes_no_sequence
\* count < K - 1: blocks of length K - 1 are kept
yes_no_short_off_by_one(count, K) == count < K - 1

\* if count < min_consecutive
yes_no_short(count, K) == count < K

\* the previous value read from the input list instead of the corrected one
yes_no_prev_val_input(seq, corrected, i) == At(seq, i - 1)

\* prev_val = corrected[i - 1]
yes_no_prev_val(seq, corrected, i) == At(corrected, i - 1)

\* the while loop, from position i on
RECURSIVE yes_no_scan(_, _, _, _)
yes_no_scan(seq, corrected, i, K) ==
    IF ~(i < Len(corrected)) THEN corrected
    ELSE LET curr == At(corrected, i)
             count == block_count(corrected, i, 1)
             prev_val == yes_no_prev_val(seq, corrected, i)
         IN  IF yes_no_short(count, K) /\ curr # prev_val
             THEN yes_no_scan(seq, Fill(corrected, i, count, prev_val), i + count, K)
             ELSE yes_no_scan(seq, corrected, i + count, K)

\* corrected = sequence instead of list(sequence): the scan writes to the
\* caller's list
correct_yes_no_sequence_aliased(seq, K) ==
    LET corrected == yes_no_scan(seq, seq, 1, K)
    IN  [sequence |-> corrected, corrected |-> corrected]

\* the call: the caller's list after it (the scan works on a copy), and the
\* list returned
correct_yes_no_sequence(seq, K) ==
    [sequence |-> seq, corrected |-> yes_no_scan(seq, seq, 1, K)]

\* ------------------------------------------------ correct_number_of_lanes
lanes_short_off_by_one(count, K) == count < K - 1

\* ... and count < min_consecutive
lanes_short(count, K) == count < K

\* the previous value read from the input list instead of the corrected one
lanes_prev_val_input(seq, corrected, i, curr) ==
    IF i > 0 THEN At(seq, i - 1) ELSE curr

\* prev_val = corrected[i - 1] if i > 0 else curr
lanes_prev_val(seq, corrected, i, curr) ==
    IF i > 0 THEN At(corrected, i - 1) ELSE curr

\* no value of its own for the block that ends the list
lanes_next_val_past_end(corrected, i, count, curr) ==
    IF (i + count) < Len(corrected) THEN At(corrected, i + count) ELSE 0

\* next_val = corrected[i + count] if (i + count) < n else curr
lanes_next_val(corrected, i, count, curr) ==
    IF (i + count) < Len(corrected) THEN At(corrected, i + count) ELSE curr

RECURSIVE lanes_scan(_, _, _, _)
lanes_scan(seq, corrected, i, K) ==
    IF ~(i < Len(corrected)) THEN corrected
    ELSE LET curr == At(corrected, i)
             count == block_count(corrected, i, 1)
             prev_val == lanes_prev_val(seq, corrected, i, curr)
             next_val == lanes_next_val(corrected, i, count, curr)
         IN  IF curr # prev_val /\ curr # next_val /\ lanes_short(count, K)
             THEN lanes_scan(seq, Fill(corrected, i, count, prev_val), i + count, K)
             ELSE lanes_scan(seq, corrected, i + count, K)

correct_number_of_lanes(seq, K) ==
    [sequence |-> seq, corrected |-> lanes_scan(seq, seq, 0, K)]

\* ------------------------------------------------ correct_horizontal_plane
RECURSIVE plane_scan(_, _, _)
plane_scan(corrected, i, K) ==
    IF ~(i < Len(corrected)) THEN corrected
    ELSE LET curr == At(corrected, i) IN
         IF isna(curr) THEN plane_scan(corrected, i + 1, K)
         ELSE LET count == block_count(corrected, i, 1)
                  prev0 == IF i > 0 THEN At(corrected, i - 1) ELSE curr
                  next0 == IF (i + count) < Len(corrected)
                           THEN At(corrected, i + count) ELSE curr
                  prev_val == IF isna(prev0) THEN curr ELSE prev0
                  next_val == IF isna(next0) THEN curr ELSE next0
              IN  IF curr # prev_val /\ curr # next_val /\ count < K
                  THEN plane_scan(Fill(corrected, i, count, prev_val), i + count, K)
                  ELSE plane_scan(corrected, i + count, K)

\* a missing value taken as a value like any other
correct_horizontal_plane_nan_is_value(seq, K) ==
    [sequence |-> seq, corrected |-> lanes_scan(seq, seq, 0, K)]

correct_horizontal_plane(seq, K) ==
    [sequence |-> seq, corrected |-> plane_scan(seq, 0, K)]

\* ------------------------------------------------ calling a smoother
Smoothers == {"yes_no", "lanes", "plane"}

\* the values of the column each smoother is applied to
Values(f) ==
    CASE f = "yes_no" -> {"Yes", "No"}
      [] f = "lanes"  -> {1, 2, 3}
      [] f = "plane"  -> {"Straight", "Curved", NaN}

Smooth(f, seq, K) ==
    CASE f = "yes_no" -> correct_yes_no_sequence(seq, K)
      [] f = "lanes"  -> correct_number_of_lanes(seq, K)
      [] f = "plane"  -> correct_horizontal_plane(seq, K)

SmoothInit ==
    /\ smoother \in Smoothers
    /\ sequence \in SeqsUpTo(Values(smoother), 0, MaxLen)
    /\ min_consecutive \in 1..MaxK
    /\ once = <<>>
    /\ twice = <<>>
    /\ spc = "ready"

\* corrected = correct_...(seq, min_consecutive=...)
Apply ==
    /\ spc = "ready"
    /\ LET r == Smooth(smoother, sequence, min_consecutive)
       IN  /\ sequence' = r.sequence
           /\ once' = r.corrected
    /\ spc' = "applied"
    /\ UNCHANGED <<smoother, min_consecutive, twice>>
    /\ UNCHANGED <<cloud_vars, toggle_vars, table_vars, run_vars, batch_vars, gui_vars>>

\* the same function called on its own result
Reapply ==
    /\ spc = "applied"
    /\ LET r == Smooth(smoother, once, min_consecutive)
       IN  /\ once' = r.sequence
           /\ twice' = r.corrected
    /\ spc' = "reapplied"
    /\ UNCHANGED <<smoother, sequence, min_consecutive>>
    /\ UNCHANGED <<cloud_vars, toggle_vars, table_vars, run_vars, batch_vars, gui_vars>>

CloudIdle ==
    /\ df = <<>>
    /\ out = <<>>
    /\ clear_seq = <<>>
    /\ partly_seq = <<>>
    /\ overcast_seq = <<>>
    /\ state_seq = <<>>
    /\ cpc = "idle"

InitSmooth == SmoothInit /\ CloudIdle /\ ToggleIdle /\ TableIdle /\ RunIdle /\ BatchIdle /\ GuiIdle
NextSmooth == Apply \/ Reapply
SpecSmooth == InitSmooth /\ [][NextSmooth]_vars

\* ------------------------------------------------ check_cloudiness_scene_switch
OK == "OK"
INCONSISTENT == "Cloudiness inconsistency: multiple or none active"
MUST_GO_THROUGH == "Clear <-> Overcast must go through PartlyCloudy"

Clear == 0
Partly == 1
Overcast == 2
Invalid == -1    \* the marker appended to state_seq for an unresolved row
None == -2       \* last_valid before any valid row was seen

abs(x) == IF x < 0 THEN 0 - x ELSE x

\* the write goes to values[i + 1] instead of values[i]
RECURSIVE zigzag_wrong_target_from(_, _)
zigzag_wrong_target_from(values, i) ==
    IF ~(i < Len(values) - 1) THEN values
    ELSE IF At(values, i - 1) = At(values, i + 1) /\ At(values, i) # At(values, i - 1)
         THEN zigzag_wrong_target_from(Put(values, i + 1, At(values, i)), i + 1)
         ELSE zigzag_wrong_target_from(values, i + 1)

zigzag_wrong_target(values) == zigzag_wrong_target_from(values, 1)

\* step 1 left out
zigzag_skipped(values) == values

\* Step 1, one column: for i in range(1, len(values) - 1); the list is
\* rewritten while it is walked
RECURSIVE zigzag_from(_, _)
zigzag_from(values, i) ==
    IF ~(i < Len(values) - 1) THEN values
    ELSE IF At(values, i - 1) = At(values, i + 1) /\ At(values, i) # At(values, i - 1)
         THEN zigzag_from(Put(values, i, At(values, i - 1)), i + 1)
         ELSE zigzag_from(values, i + 1)

zigzag(values) == zigzag_from(values, 1)

\* active_count = sum(active.values())
active_count(c, p, o) ==
    (IF c = "Yes" THEN 1 ELSE 0) + (IF p = "Yes" THEN 1 ELSE 0)
        + (IF o = "Yes" THEN 1 ELSE 0)

\* state = [k for k, v in active.items() if v][0]
first_active(c, p, o) ==
    IF c = "Yes" THEN Clear ELSE IF p = "Yes" THEN Partly ELSE Overcast

\* last_valid = state is left out
last_valid_after_stale(last_valid, state) == last_valid

\* last_valid = state
last_valid_after(last_valid, state) == state

\* the forced row also gets the inconsistency label
forced_label_flagged(label) == INCONSISTENT

\* out.at[row_idx, check_col] = "OK"
forced_label(label) == OK

\* Step 2, the body of the loop for row j; acc holds out, state_seq and
\* last_valid as the rows before j left them
exclusivity_row(acc, j, cs, ps, os) ==
    IF active_count(At(cs, j), At(ps, j), At(os, j)) = 1
    THEN LET state == first_active(At(cs, j), At(ps, j), At(os, j))
         IN  [out |-> acc.out,
              state_seq |-> Append(acc.state_seq, state),
              last_valid |-> last_valid_after(acc.last_valid, state)]
    ELSE IF acc.last_valid # None
         THEN [out |-> [clear |-> Put(acc.out.clear, j,
                                      IF acc.last_valid = 0 THEN "Yes" ELSE "No"),
                        partly |-> Put(acc.out.partly, j,
                                       IF acc.last_valid = 1 THEN "Yes" ELSE "No"),
                        overcast |-> Put(acc.out.overcast, j,
                                         IF acc.last_valid = 2 THEN "Yes" ELSE "No"),
                        check |-> Put(acc.out.check, j,
                                      forced_label(At(acc.out.check, j)))],
               state_seq |-> Append(acc.state_seq, acc.last_valid),
               last_valid |-> acc.last_valid]
         ELSE [out |-> [acc.out EXCEPT !.check = Put(acc.out.check, j, INCONSISTENT)],
               state_seq |-> Append(acc.state_seq, Invalid),
               last_valid |-> acc.last_valid]

\* Step 2: for j, row_idx in enumerate(idxs)
RECURSIVE exclusivity_from(_, _, _, _, _)
exclusivity_from(acc, j, cs, ps, os) ==
    IF ~(j < Len(cs)) THEN acc
    ELSE exclusivity_from(exclusivity_row(acc, j, cs, ps, os), j + 1, cs, ps, os)

\* any change of state counts as a jump
is_jump_any_change(prev_state, curr_state) == abs(curr_state - prev_state) >= 1

\* the difference taken without abs: only Clear -> Overcast is a jump
is_jump_upward(prev_state, curr_state) == curr_state - prev_state = 2

\* abs(curr_state - prev_state) == 2
is_jump(prev_state, curr_state) == abs(curr_state - prev_state) = 2

\* the one-sample detour: brief = (j >= 2 and j + 1 < len(state_seq) and ...)
brief(st, j, prev_state) ==
    /\ j >= 2
    /\ j + 1 < Len(st)
    /\ At(st, j - 2) = prev_state
    /\ At(st, j + 1) = prev_state

\* Step 3, the body of the loop for row j: the check column after it
transition_row(check, st, j) ==
    LET prev_state == At(st, j - 1)
        curr_state == At(st, j)
    IN  IF prev_state = Invalid \/ curr_state = Invalid THEN check
        ELSE IF is_jump(prev_state, curr_state) /\ ~brief(st, j, prev_state)
             THEN Put(check, j, MUST_GO_THROUGH)
             ELSE check

\* Step 3: for j in range(1, len(state_seq))
RECURSIVE transition_from(_, _, _)
transition_from(check, st, j) ==
    IF ~(j < Len(st)) THEN check
    ELSE transition_from(transition_row(check, st, j), st, j + 1)

YesNo == {"Yes", "No"}
CloudRow == [clear : YesNo, partly : YesNo, overcast : YesNo]
Column(rows, f) == [j \in 1..Len(rows) |-> rows[j][f]]

CloudInit ==
    /\ \E rows \in SeqsUpTo(CloudRow, 1, MaxRows) :
           df = [clear |-> Column(rows, "clear"),
                 partly |-> Column(rows, "partly"),
                 overcast |-> Column(rows, "overcast")]
    /\ out = <<>>
    /\ clear_seq = <<>>
    /\ partly_seq = <<>>
    /\ overcast_seq = <<>>
    /\ state_seq = <<>>
    /\ cpc = "input"

\* out = df.copy(); out[check_col] = "OK"; Step 1 on the three columns and
\* the re-fetch of the sequences
ZigZagSmoothing ==
    /\ cpc = "input"
    /\ out' = [clear |-> zigzag(df.clear),
               partly |-> zigzag(df.partly),
               overcast |-> zigzag(df.overcast),
               check |-> [j \in 1..Len(df.clear) |-> OK]]
    /\ clear_seq' = out'.clear
    /\ partly_seq' = out'.partly
    /\ overcast_seq' = out'.overcast
    /\ cpc' = "smoothed"
    /\ UNCHANGED <<df, state_seq>>
    /\ UNCHANGED <<smooth_vars, toggle_vars, table_vars, run_vars, batch_vars, gui_vars>>

\* Step 2: exclusivity and correction via the previous valid state
ExclusivityEnforcement ==
    /\ cpc = "smoothed"
    /\ LET acc == exclusivity_from(
                      [out |-> out, state_seq |-> <<>>, last_valid |-> None],
                      0, clear_seq, partly_seq, overcast_seq)
       IN  /\ out' = acc.out
           /\ state_seq' = acc.state_seq
    /\ cpc' = "enforced"
    /\ UNCHANGED <<df, clear_seq, partly_seq, overcast_seq>>
    /\ UNCHANGED <<smooth_vars, toggle_vars, table_vars, run_vars, batch_vars, gui_vars>>

\* Step 3: the transition rule
TransitionRule ==
    /\ cpc = "enforced"
    /\ out' = [out EXCEPT !.check = transition_from(out.check, state_seq, 1)]
    /\ cpc' = "done"
    /\ UNCHANGED <<df, clear_seq, partly_seq, overcast_seq, state_seq>>
    /\ UNCHANGED <<smooth_vars, toggle_vars, table_vars, run_vars, batch_vars, gui_vars>>

SmoothIdle ==
    /\ smoother = "none"
    /\ sequence = <<>>
    /\ min_consecutive = 0
    /\ once = <<>>
    /\ twice = <<>>
    /\ spc = "idle"

InitCloud == CloudInit /\ SmoothIdle /\ ToggleIdle /\ TableIdle /\ RunIdle /\ BatchIdle /\ GuiIdle
NextCloud == ZigZagSmoothing \/ ExclusivityEnforcement \/ TransitionRule
SpecCloud == InitCloud /\ [][NextCloud]_vars

\* ------------------------------------------------ get_issue_labels
EXIT_REENTRY == "Immediate exit/re-entry"
ENTRY_EXIT == "Immediate entry/exit"

\* i += 1 after a match: the next window overlaps the matched one
toggle_skip_one(i) == i + 1

\* i += 2 after a match
toggle_skip(i) == i + 2

\* the while loop, from position i on
RECURSIVE issue_scan(_, _, _)
issue_scan(seq, labels, i) ==
    IF ~(i < Len(seq) - 1) THEN labels
    ELSE LET prev_v == At(seq, i - 1)
             v == At(seq, i)
             next_v == At(seq, i + 1)
         IN  IF v = "No" /\ prev_v = "Yes" /\ next_v = "Yes"
             THEN issue_scan(seq, Put(labels, i, EXIT_REENTRY), toggle_skip(i))
             ELSE IF v = "Yes" /\ prev_v = "No" /\ next_v = "No"
                  THEN issue_scan(seq, Put(labels, i, ENTRY_EXIT), toggle_skip(i))
                  ELSE issue_scan(seq, labels, i + 1)

\* labels = ["OK"] * len(sequence), then the scan from i = 1
get_issue_labels(seq) ==
    issue_scan(seq, [j \in 1..Len(seq) |-> OK], 1)

ToggleInit ==
    /\ tg_sequence \in SeqsUpTo({"Yes", "No", NaN}, 0, MaxLen)
    /\ tg_labels = <<>>
    /\ tg_pc = "ready"

GetIssueLabels ==
    /\ tg_pc = "ready"
    /\ tg_labels' = get_issue_labels(tg_sequence)
    /\ tg_pc' = "labelled"
    /\ UNCHANGED tg_sequence
    /\ UNCHANGED <<smooth_vars, cloud_vars, table_vars, run_vars, batch_vars, gui_vars>>

InitToggle == ToggleInit /\ SmoothIdle /\ CloudIdle /\ TableIdle /\ RunIdle /\ BatchIdle /\ GuiIdle
NextToggle == GetIssueLabels
SpecToggle == InitToggle /\ [][NextToggle]_vars

\* ------------------------------------------------ smoother, then checker
\* The checker reads the smoothed column of a scene and labels it: seq =
\* scene_df[auto_col].tolist(); get_issue_labels(seq).
PipelineInit == SmoothInit /\ smoother = "yes_no"

LabelSmoothed ==
    /\ spc = "applied" /\ tg_pc = "idle"
    /\ tg_sequence' = once
    /\ tg_labels' = get_issue_labels(once)
    /\ tg_pc' = "labelled"
    /\ UNCHANGED <<smooth_vars, cloud_vars, table_vars, run_vars, batch_vars, gui_vars>>

InitPipeline ==
    PipelineInit /\ CloudIdle /\ ToggleIdle /\ TableIdle /\ RunIdle /\ BatchIdle /\ GuiIdle
NextPipeline == Apply \/ LabelSmoothed
SpecPipeline == InitPipeline /\ [][NextPipeline]_vars

\* ------------------------------------------------ tables
\* A table is the list of its rows in table order; a row is a record of its
\* fields, and its index label is its 0-based position (a RangeIndex).
SceneTokens == <<"A", "B">>
SceneValues == {"A", "B", NaN}

Range(s) == {s[k] : k \in 1..Len(s)}

\* a column assigned to every row: out[col] = value
with_column(tbl, col, value) ==
    [i \in 1..Len(tbl) |->
        [f \in DOMAIN tbl[i] \cup {col} |-> IF f = col THEN value ELSE tbl[i][f]]]

\* df.groupby(scene_col): the keys, sorted; rows with a missing key are in no
\* group
groupby_keys(tbl) ==
    SelectSeq(SceneTokens, LAMBDA s : \E i \in 1..Len(tbl) : tbl[i].Scene = s)

\* the index labels of the rows with df[scene_col] == scene_token
mask_idxs(tbl, s) ==
    SelectSeq([k \in 1..Len(tbl) |-> k - 1], LAMBDA i : At(tbl, i).Scene = s)

\* df.loc[mask, col].tolist()
column_at(tbl, idxs, col) == [k \in 1..Len(idxs) |-> At(tbl, idxs[k])[col]]

\* out.loc[idxs, col] = values
assign_at(tbl, idxs, col, values) ==
    [i \in 1..Len(tbl) |->
        IF \E k \in 1..Len(idxs) : idxs[k] = i - 1
        THEN [tbl[i] EXCEPT ![col] =
                 values[CHOOSE k \in 1..Len(idxs) : idxs[k] = i - 1]]
        ELSE tbl[i]]

\* ------------------------------------------------ add_problem_flags
\* out.loc[mask, f"{auto_col}_check"] = get_issue_labels(seq), scene by scene.
\* The column is created by the first such assignment, which leaves a missing
\* value in the rows outside the mask; NaN in `check` stands for that, and for
\* a column that no assignment created.
RECURSIVE add_problem_flags_from(_, _, _, _)
add_problem_flags_from(tbl, result, keys, k) ==
    IF k > Len(keys) THEN result
    ELSE LET idxs == mask_idxs(tbl, keys[k])
             seq == column_at(tbl, idxs, "value")
         IN  add_problem_flags_from(
                 tbl, assign_at(result, idxs, "check", get_issue_labels(seq)),
                 keys, k + 1)

add_problem_flags(tbl) ==
    add_problem_flags_from(tbl, with_column(tbl, "check", NaN), groupby_keys(tbl), 1)

\* ------------------------------------------------ flag_number_of_lanes
\* A lane value is a number (v2 is twice its value, so that 3.5 is 7), a
\* missing value, or text that float() rejects.
Num(v2) == [kind |-> "num", v2 |-> v2]
LaneText == [kind |-> "text", v2 |-> 0]
LaneNaN == [kind |-> "nan", v2 |-> 0]
LaneValues == {Num(2), Num(4), Num(6), Num(7), LaneText, LaneNaN}

\* float(x) raises for text; float(nan) is nan
float_raises(x) == x.kind = "text"

\* a label of the lanes check: its text, and N where the text has one
LaneLabel(text, n) == [text |-> text, n |-> n]
LANES_OK == LaneLabel(OK, 0)
ADDITION == "Sudden addition of N lanes"
REDUCTION == "Sudden reduction of N lanes"

\* the jump threshold taken as > 2
lanes_jump_strict(diff2) == abs(diff2) > 4

\* abs(diff) >= 2, on twice the difference
lanes_jump(diff2) == abs(diff2) >= 4

\* the previous row of the table instead of the previous row of the scene
lanes_prev_table_row(tbl, idxs, i) ==
    IF idxs[i + 1] >= 1 THEN At(tbl, idxs[i + 1] - 1).lanes ELSE LaneText

\* vals[i - 1]
lanes_prev(tbl, idxs, i) == At(tbl, idxs[i]).lanes

\* the body of `for i in range(1, len(vals))` for one scene
lanes_row(tbl, result, idxs, i) ==
    LET curr == At(tbl, idxs[i + 1]).lanes
        prev == lanes_prev(tbl, idxs, i)
    IN  IF float_raises(curr) \/ float_raises(prev) THEN result
        ELSE IF curr.kind = "nan" \/ prev.kind = "nan" THEN result
        ELSE LET diff2 == curr.v2 - prev.v2
             IN  IF lanes_jump(diff2)
                 THEN assign_at(result, <<idxs[i + 1]>>, "check",
                          <<LaneLabel(IF diff2 > 0 THEN ADDITION ELSE REDUCTION,
                                      abs(diff2) \div 2)>>)
                 ELSE result

RECURSIVE lanes_scene_from(_, _, _, _)
lanes_scene_from(tbl, result, idxs, i) ==
    IF ~(i < Len(idxs)) THEN result
    ELSE lanes_scene_from(tbl, lanes_row(tbl, result, idxs, i), idxs, i + 1)

RECURSIVE flag_number_of_lanes_from(_, _, _, _)
flag_number_of_lanes_from(tbl, result, keys, k) ==
    IF k > Len(keys) THEN result
    ELSE flag_number_of_lanes_from(
             tbl, lanes_scene_from(tbl, result, mask_idxs(tbl, keys[k]), 1),
             keys, k + 1)

flag_number_of_lanes(tbl) ==
    flag_number_of_lanes_from(tbl, with_column(tbl, "check", LANES_OK),
                              groupby_keys(tbl), 1)

\* ------------------------------------------------ the row-wise checks
Tri == {"Yes", "No", NaN}

\* a.notna() & b.notna() left out of the mask
both_equal_unmasked(a, b) == a = b

\* valid & (out[a_col] == out[b_col]) for one row
both_equal(a, b) == (~isna(a) /\ ~isna(b)) /\ a = b

DIVIDED_INCONSISTENT == "Divided/Undivided inconsistency (both equal)"
ILLUMINATION_INCONSISTENT == "Illumination inconsistency (Day and Night are the same)"

check_divided_undivided_consistency(tbl) ==
    LET result == with_column(tbl, "check", OK)
    IN  [i \in 1..Len(tbl) |->
            IF both_equal(tbl[i].divided, tbl[i].undivided)
            THEN [result[i] EXCEPT !.check = DIVIDED_INCONSISTENT]
            ELSE result[i]]

check_illumination_consistency(tbl) ==
    LET result == with_column(tbl, "check", OK)
    IN  [i \in 1..Len(tbl) |->
            IF both_equal(tbl[i].day, tbl[i].night)
            THEN [result[i] EXCEPT !.check = ILLUMINATION_INCONSISTENT]
            ELSE result[i]]

\* A cell of a signs or times column, by what the two parsers make of it:
\*   "list"        a list object of n items
\*   "json_list"   text json.loads parses to a list of n items
\*   "json_other"  text json.loads parses to something that is not a list
\*   "py_list"     text json.loads rejects and ast.literal_eval parses to a
\*                 list of n items
\*   "py_other"    text json.loads rejects and ast.literal_eval parses to
\*                 something that is not a list
\*   "garbage"     text both reject
\*   "nan"         a missing value
Cell(kind, n) == [kind |-> kind, n |-> n]
Cells == {Cell("list", 0), Cell("json_list", 1), Cell("json_list", 2),
          Cell("py_list", 1), Cell("json_other", 0), Cell("py_other", 0),
          Cell("garbage", 0), Cell("nan", 0)}

safe_list_len(x) ==
    IF x.kind = "list" THEN x.n
    ELSE IF x.kind = "nan" THEN -1
    ELSE IF x.kind = "json_list" THEN x.n
    ELSE IF x.kind = "json_other" THEN -1
    ELSE IF x.kind = "py_list" THEN x.n
    ELSE -1

\* a label of the pair check: its text, and the two lengths where the text
\* has them
PairLabel(text, a, b) == [text |-> text, signs |-> a, times |-> b]
PAIR_OK == PairLabel(OK, 0, 0)
PARSE_ERROR == PairLabel("Parse error (non-list)", 0, 0)
LENGTH_MISMATCH == "Length mismatch (signs=a, times=b)"

\* the two tests in the other order
pair_label_mismatch_first(l_signs, l_times) ==
    IF l_signs # l_times THEN PairLabel(LENGTH_MISMATCH, l_signs, l_times)
    ELSE IF l_signs = -1 \/ l_times = -1 THEN PARSE_ERROR
    ELSE PAIR_OK

pair_label(l_signs, l_times) ==
    IF l_signs = -1 \/ l_times = -1 THEN PARSE_ERROR
    ELSE IF l_signs # l_times THEN PairLabel(LENGTH_MISMATCH, l_signs, l_times)
    ELSE PAIR_OK

\* one (signs_col, times_col) pair
check_signs_time_pairs(tbl) ==
    LET result == with_column(tbl, "check", PAIR_OK)
    IN  [i \in 1..Len(tbl) |->
            [result[i] EXCEPT !.check =
                pair_label(safe_list_len(tbl[i].signs), safe_list_len(tbl[i].times))]]

MISSING_SIGNAGE == "RoadWorks present but missing TemporaryRoadSignage"
LINES_ALONE == "TemporaryLineMarkers present without RoadWorks and Signage"

\* rule 2 without its test of the signage
rule2_any_signage(rw, sign, lines) == lines = "Yes" /\ rw = "No"

rule1(rw, sign, lines) == rw = "Yes" /\ sign = "No"
rule2(rw, sign, lines) == lines = "Yes" /\ rw = "No" /\ sign = "No"

check_construction_zone(tbl) ==
    LET result == with_column(tbl, "check", OK)
    IN  [i \in 1..Len(tbl) |->
            LET rw == tbl[i].roadworks
                sign == tbl[i].signage
                lines == tbl[i].linemarkers
            IN  IF rule1(rw, sign, lines)
                THEN [result[i] EXCEPT !.check = MISSING_SIGNAGE]
                ELSE IF rule2(rw, sign, lines)
                THEN [result[i] EXCEPT !.check = LINES_ALONE]
                ELSE result[i]]

\* ------------------------------------------------ smoothing a column by scene
\* df[SCENE_COL].dropna().unique(): the scenes in order of first appearance
RECURSIVE unique_from(_, _, _)
unique_from(tbl, i, seen) ==
    IF i > Len(tbl) THEN seen
    ELSE LET s == tbl[i].Scene
         IN  IF isna(s) \/ s \in Range(seen)
             THEN unique_from(tbl, i + 1, seen)
             ELSE unique_from(tbl, i + 1, Append(seen, s))

unique_scenes(tbl) == unique_from(tbl, 1, <<>>)

\* df[auto_col] = df[col].copy()
copy_column(tbl) ==
    [i \in 1..Len(tbl) |->
        [f \in DOMAIN tbl[i] \cup {"auto"} |->
            IF f = "auto" THEN tbl[i].value ELSE tbl[i][f]]]

\* the corrected values written over the column smoothed
written_column_original == "value"

\* df.loc[mask, auto_col] = ...: the column written
written_column == "auto"

RECURSIVE smooth_from(_, _, _, _, _)
smooth_from(result, f, K, scenes, k) ==
    IF k > Len(scenes) THEN result
    ELSE LET idxs == mask_idxs(result, scenes[k])
             seq == column_at(result, idxs, "auto")
             corrected == Smooth(f, seq, K).corrected
         IN  smooth_from(assign_at(result, idxs, written_column, corrected),
                         f, K, scenes, k + 1)

smooth_column(tbl, f, K) ==
    smooth_from(copy_column(tbl), f, K, unique_scenes(tbl), 1)

\* MIN_CONSECUTIVE_PER_COL.get(col, DEFAULT_MIN_CONSECUTIVE) for a Divided or
\* Undivided column and for any other Yes/No column; the lanes and the plane
\* thresholds
MIN_CONSECUTIVE_DIVIDED == 2
DEFAULT_MIN_CONSECUTIVE == 3
MIN_CONSECUTIVE_LANES == 3
MIN_CONSECUTIVE_PLANE == 4

SmoothedColumns == {"smooth_divided", "smooth_yes_no", "smooth_lanes", "smooth_plane"}

smoother_of(col) ==
    CASE col \in {"smooth_divided", "smooth_yes_no"} -> "yes_no"
      [] col = "smooth_lanes" -> "lanes"
      [] col = "smooth_plane" -> "plane"

min_cons(col) ==
    CASE col = "smooth_divided" -> MIN_CONSECUTIVE_DIVIDED
      [] col = "smooth_yes_no" -> DEFAULT_MIN_CONSECUTIVE
      [] col = "smooth_lanes" -> MIN_CONSECUTIVE_LANES
      [] col = "smooth_plane" -> MIN_CONSECUTIVE_PLANE

\* ------------------------------------------------ the cloudiness check on a table
\* the three steps on one scene group
cloud_group(g) ==
    LET smoothed == [clear |-> zigzag(g.clear),
                     partly |-> zigzag(g.partly),
                     overcast |-> zigzag(g.overcast),
                     check |-> g.check]
        acc == exclusivity_from(
                   [out |-> smoothed, state_seq |-> <<>>, last_valid |-> None],
                   0, smoothed.clear, smoothed.partly, smoothed.overcast)
    IN  [acc.out EXCEPT !.check = transition_from(acc.out.check, acc.state_seq, 1)]

RECURSIVE cloudiness_from(_, _, _)
cloudiness_from(result, keys, k) ==
    IF k > Len(keys) THEN result
    ELSE LET idxs == mask_idxs(result, keys[k])
             g == cloud_group([clear |-> column_at(result, idxs, "clear"),
                               partly |-> column_at(result, idxs, "partly"),
                               overcast |-> column_at(result, idxs, "overcast"),
                               check |-> column_at(result, idxs, "check")])
         IN  cloudiness_from(
                 assign_at(assign_at(assign_at(assign_at(result,
                     idxs, "clear", g.clear), idxs, "partly", g.partly),
                     idxs, "overcast", g.overcast), idxs, "check", g.check),
                 keys, k + 1)

check_cloudiness_scene_switch(tbl) ==
    cloudiness_from(with_column(tbl, "check", OK), groupby_keys(tbl), 1)

\* ------------------------------------------------ the checks on a table
DividedRow == [divided : Tri, undivided : Tri]
DayNightRow == [day : Tri, night : Tri]
SignsRow == [signs : Cells, times : Cells]
ZoneRow == [roadworks : Tri, signage : Tri, linemarkers : Tri]
\* a row of the cloudiness check: one field 'Yes', or none
CloudPatterns ==
    {r \in CloudRow : Cardinality({f \in {"clear", "partly", "overcast"} : r[f] = "Yes"}) <= 1}
CloudTableRow ==
    {[Scene |-> s, clear |-> r.clear, partly |-> r.partly, overcast |-> r.overcast] :
        s \in SceneValues, r \in CloudPatterns}
SmoothRow(col) == [Scene : SceneValues, value : Values(smoother_of(col))]
ToggleRow == [Scene : SceneValues, value : {"Yes", "No"}]
LaneRow == [Scene : SceneValues, lanes : LaneValues]

TableInit ==
    /\ tb_check \in {"toggle", "divided", "lanes", "signs", "zone", "illumination",
                     "cloudiness"} \cup SmoothedColumns
    /\ tb_df \in CASE tb_check = "toggle" -> SeqsUpTo(ToggleRow, 0, MaxToggleRows)
                   [] tb_check = "divided" -> SeqsUpTo(DividedRow, 0, MaxFlatRows)
                   [] tb_check = "lanes" -> SeqsUpTo(LaneRow, 0, MaxLaneRows)
                   [] tb_check = "signs" -> SeqsUpTo(SignsRow, 0, MaxFlatRows)
                   [] tb_check = "zone" -> SeqsUpTo(ZoneRow, 0, MaxFlatRows)
                   [] tb_check = "illumination" -> SeqsUpTo(DayNightRow, 0, MaxFlatRows)
                   [] tb_check = "cloudiness" -> SeqsUpTo(CloudTableRow, 0, MaxCloudRows)
                   [] tb_check \in SmoothedColumns ->
                          SeqsUpTo(SmoothRow(tb_check), 0, MaxSmoothRows)
    /\ tb_out = <<>>
    /\ tb_pc = "ready"

\* df_flags = add_problem_flags(df, args.scene_col, base_cols)
AddProblemFlags ==
    /\ tb_pc = "ready" /\ tb_check = "toggle"
    /\ tb_out' = add_problem_flags(tb_df)
    /\ tb_pc' = "checked"
    /\ UNCHANGED <<tb_check, tb_df>>
    /\ UNCHANGED <<smooth_vars, cloud_vars, toggle_vars, run_vars, batch_vars, gui_vars>>

\* df_flags = flag_number_of_lanes(df_flags, args.scene_col, args.lanes_col)
FlagNumberOfLanes ==
    /\ tb_pc = "ready" /\ tb_check = "lanes"
    /\ tb_out' = flag_number_of_lanes(tb_df)
    /\ tb_pc' = "checked"
    /\ UNCHANGED <<tb_check, tb_df>>
    /\ UNCHANGED <<smooth_vars, cloud_vars, toggle_vars, run_vars, batch_vars, gui_vars>>

\* df_flags = check_divided_undivided_consistency(df_flags, ...)
CheckDividedUndivided ==
    /\ tb_pc = "ready" /\ tb_check = "divided"
    /\ tb_out' = check_divided_undivided_consistency(tb_df)
    /\ tb_pc' = "checked"
    /\ UNCHANGED <<tb_check, tb_df>>
    /\ UNCHANGED <<smooth_vars, cloud_vars, toggle_vars, run_vars, batch_vars, gui_vars>>

\* df_flags = check_signs_time_pairs(df_flags, pairs)
CheckSignsTimePairs ==
    /\ tb_pc = "ready" /\ tb_check = "signs"
    /\ tb_out' = check_signs_time_pairs(tb_df)
    /\ tb_pc' = "checked"
    /\ UNCHANGED <<tb_check, tb_df>>
    /\ UNCHANGED <<smooth_vars, cloud_vars, toggle_vars, run_vars, batch_vars, gui_vars>>

\* df_flags = check_construction_zone(df_flags, ...)
CheckConstructionZone ==
    /\ tb_pc = "ready" /\ tb_check = "zone"
    /\ tb_out' = check_construction_zone(tb_df)
    /\ tb_pc' = "checked"
    /\ UNCHANGED <<tb_check, tb_df>>
    /\ UNCHANGED <<smooth_vars, cloud_vars, toggle_vars, run_vars, batch_vars, gui_vars>>

\* df_flags = check_illumination_consistency(df_flags, ...)
CheckIllumination ==
    /\ tb_pc = "ready" /\ tb_check = "illumination"
    /\ tb_out' = check_illumination_consistency(tb_df)
    /\ tb_pc' = "checked"
    /\ UNCHANGED <<tb_check, tb_df>>
    /\ UNCHANGED <<smooth_vars, cloud_vars, toggle_vars, run_vars, batch_vars, gui_vars>>

\* df_flags = check_cloudiness_scene_switch(df_flags, ...)
CheckCloudiness ==
    /\ tb_pc = "ready" /\ tb_check = "cloudiness"
    /\ tb_out' = check_cloudiness_scene_switch(tb_df)
    /\ tb_pc' = "checked"
    /\ UNCHANGED <<tb_check, tb_df>>
    /\ UNCHANGED <<smooth_vars, cloud_vars, toggle_vars, run_vars, batch_vars, gui_vars>>

\* the Yes/No smoothing of one column of ALLOWED_YES_NO_COLS
SmoothYesNo ==
    /\ tb_pc = "ready" /\ tb_check \in {"smooth_divided", "smooth_yes_no"}
    /\ tb_out' = smooth_column(tb_df, "yes_no", min_cons(tb_check))
    /\ tb_pc' = "smoothed"
    /\ UNCHANGED <<tb_check, tb_df>>
    /\ UNCHANGED <<smooth_vars, cloud_vars, toggle_vars, run_vars, batch_vars, gui_vars>>

\* the NumberOfLanes smoothing
SmoothLanes ==
    /\ tb_pc = "ready" /\ tb_check = "smooth_lanes"
    /\ tb_out' = smooth_column(tb_df, "lanes", min_cons(tb_check))
    /\ tb_pc' = "smoothed"
    /\ UNCHANGED <<tb_check, tb_df>>
    /\ UNCHANGED <<smooth_vars, cloud_vars, toggle_vars, run_vars, batch_vars, gui_vars>>

\* the HorizontalPlane smoothing
SmoothPlane ==
    /\ tb_pc = "ready" /\ tb_check = "smooth_plane"
    /\ tb_out' = smooth_column(tb_df, "plane", min_cons(tb_check))
    /\ tb_pc' = "smoothed"
    /\ UNCHANGED <<tb_check, tb_df>>
    /\ UNCHANGED <<smooth_vars, cloud_vars, toggle_vars, run_vars, batch_vars, gui_vars>>

InitTable == TableInit /\ SmoothIdle /\ CloudIdle /\ ToggleIdle /\ RunIdle /\ BatchIdle /\ GuiIdle
NextTable ==
    \/ AddProblemFlags
    \/ CheckDividedUndivided
    \/ FlagNumberOfLanes
    \/ CheckSignsTimePairs
    \/ CheckConstructionZone
    \/ CheckIllumination
    \/ CheckCloudiness
    \/ SmoothYesNo
    \/ SmoothLanes
    \/ SmoothPlane
SpecTable == InitTable /\ [][NextTable]_vars

\* ------------------------------------------------ a pair of fields, smoothed then checked
\* One scene's rows of Divided/Undivided or of Day/Night: the smoother writes
\* the two *_Auto_Check columns, which are the columns the checker's pair
\* check reads.
PairChecks == {"pair_divided", "pair_illumination"}

first_field(chk) == IF chk = "pair_divided" THEN "divided" ELSE "day"
second_field(chk) == IF chk = "pair_divided" THEN "undivided" ELSE "night"

\* MIN_CONSECUTIVE_PER_COL with the entry of Undivided left out
pair_min_cons_divided_only(col) ==
    IF col = "divided" THEN MIN_CONSECUTIVE_DIVIDED ELSE DEFAULT_MIN_CONSECUTIVE

\* MIN_CONSECUTIVE_PER_COL.get(col, DEFAULT_MIN_CONSECUTIVE)
pair_min_cons(col) ==
    IF col \in {"divided", "undivided"}
    THEN MIN_CONSECUTIVE_DIVIDED ELSE DEFAULT_MIN_CONSECUTIVE

\* the scene's two columns after the Yes/No smoothing of each
smooth_pair(tbl, f, g) ==
    LET cf == correct_yes_no_sequence(Column(tbl, f), pair_min_cons(f)).corrected
        cg == correct_yes_no_sequence(Column(tbl, g), pair_min_cons(g)).corrected
    IN  [i \in 1..Len(tbl) |-> [x \in {f, g} |-> IF x = f THEN cf[i] ELSE cg[i]]]

PairInit ==
    /\ tb_check \in PairChecks
    /\ tb_df \in SeqsUpTo([{first_field(tb_check), second_field(tb_check)} -> YesNo],
                          0, MaxLen)
    /\ tb_out = <<>>
    /\ tb_pc = "ready"

SmoothPair ==
    /\ tb_pc = "ready" /\ tb_check \in PairChecks
    /\ tb_out' = smooth_pair(tb_df, first_field(tb_check), second_field(tb_check))
    /\ tb_pc' = "smoothed"
    /\ UNCHANGED <<tb_check, tb_df>>
    /\ UNCHANGED <<smooth_vars, cloud_vars, toggle_vars, run_vars, batch_vars, gui_vars>>

CheckSmoothedPair ==
    /\ tb_pc = "smoothed" /\ tb_check \in PairChecks
    /\ tb_out' = IF tb_check = "pair_divided"
                 THEN check_divided_undivided_consistency(tb_out)
                 ELSE check_illumination_consistency(tb_out)
    /\ tb_pc' = "checked"
    /\ UNCHANGED <<tb_check, tb_df>>
    /\ UNCHANGED <<smooth_vars, cloud_vars, toggle_vars, run_vars, batch_vars, gui_vars>>

InitPairs ==
    PairInit /\ SmoothIdle /\ CloudIdle /\ ToggleIdle /\ RunIdle /\ BatchIdle /\ GuiIdle
NextPairs == SmoothPair \/ CheckSmoothedPair
SpecPairs == InitPairs /\ [][NextPairs]_vars

\* ------------------------------------------------ main: the run of the checks
\* The run is followed on the table's columns only.  The table has at least
\* one row with a scene, so a per-scene loop that starts has a group to visit.
\* One base column and one (signs, times) pair stand for the lists of them.
FieldColumns ==
    {"auto_col", "divided_col", "undivided_col", "lanes_col", "signs_col",
     "times_col", "roadworks_col", "signage_col", "linemarkers_col",
     "day_col", "night_col", "clear_col", "partly_col", "overcast_col"}
AllColumns == {"scene_col"} \cup FieldColumns
CloudColumns == {"clear_col", "partly_col", "overcast_col"}

\* what a call does: it raises, or it returns a table with `written` added or
\* changed
Raised == [raised |-> TRUE, written |-> {}]
Returned(cols) == [raised |-> FALSE, written |-> cols]

\* df.groupby(scene_col): KeyError when the table has no such column
groupby_raises(columns) == "scene_col" \notin columns

add_problem_flags_columns(columns) ==
    IF groupby_raises(columns) THEN Raised
    ELSE IF "auto_col" \notin columns THEN Returned({})
    ELSE Returned({"auto_col_check"})

check_divided_undivided_columns(columns) ==
    IF "divided_col" \notin columns \/ "undivided_col" \notin columns
    THEN Returned({})
    ELSE Returned({"divided_undivided_check"})

flag_number_of_lanes_columns(columns) ==
    IF "lanes_col" \notin columns THEN Returned({})
    ELSE IF groupby_raises(columns) THEN Raised
    ELSE Returned({"lanes_col_check"})

check_signs_time_pairs_columns(columns) ==
    IF "signs_col" \notin columns \/ "times_col" \notin columns
    THEN Returned({})
    ELSE Returned({"signs_col_pair_check"})

check_construction_zone_columns(columns) ==
    IF \E c \in {"roadworks_col", "signage_col", "linemarkers_col"} : c \notin columns
    THEN Returned({})
    ELSE Returned({"roadworks_col_check"})

check_illumination_columns(columns) ==
    IF "day_col" \notin columns \/ "night_col" \notin columns
    THEN Returned({})
    ELSE Returned({"day_night_check"})

check_cloudiness_columns(columns) ==
    IF \E c \in CloudColumns : c \notin columns THEN Returned({})
    ELSE IF groupby_raises(columns) THEN Raised
    ELSE Returned({"clear_col_check"} \cup CloudColumns)

RunInit ==
    /\ \E missing \in SUBSET AllColumns :
           /\ Cardinality(missing) <= MaxMissing
           /\ run_input = AllColumns \ missing
    /\ run_columns = run_input
    /\ run_written = {}
    /\ run_pc = "add_problem_flags"

\* df_flags = check(df_flags, ...): an exception ends the run
Call(outcome, next) ==
    IF outcome.raised
    THEN /\ run_pc' = "raised"
         /\ UNCHANGED <<run_input, run_columns, run_written>>
    ELSE /\ run_columns' = run_columns \cup outcome.written
         /\ run_written' = run_written \cup outcome.written
         /\ run_pc' = next
         /\ UNCHANGED run_input

RunAddProblemFlags ==
    /\ run_pc = "add_problem_flags"
    /\ Call(add_problem_flags_columns(run_columns), "check_divided_undivided")
    /\ UNCHANGED <<smooth_vars, cloud_vars, toggle_vars, table_vars, batch_vars, gui_vars>>

RunDividedUndivided ==
    /\ run_pc = "check_divided_undivided"
    /\ Call(check_divided_undivided_columns(run_columns), "flag_number_of_lanes")
    /\ UNCHANGED <<smooth_vars, cloud_vars, toggle_vars, table_vars, batch_vars, gui_vars>>

RunFlagNumberOfLanes ==
    /\ run_pc = "flag_number_of_lanes"
    /\ Call(flag_number_of_lanes_columns(run_columns), "check_signs_time_pairs")
    /\ UNCHANGED <<smooth_vars, cloud_vars, toggle_vars, table_vars, batch_vars, gui_vars>>

RunSignsTimePairs ==
    /\ run_pc = "check_signs_time_pairs"
    /\ Call(check_signs_time_pairs_columns(run_columns), "check_construction_zone")
    /\ UNCHANGED <<smooth_vars, cloud_vars, toggle_vars, table_vars, batch_vars, gui_vars>>

RunConstructionZone ==
    /\ run_pc = "check_construction_zone"
    /\ Call(check_construction_zone_columns(run_columns), "check_illumination")
    /\ UNCHANGED <<smooth_vars, cloud_vars, toggle_vars, table_vars, batch_vars, gui_vars>>

RunIllumination ==
    /\ run_pc = "check_illumination"
    /\ Call(check_illumination_columns(run_columns), "check_cloudiness")
    /\ UNCHANGED <<smooth_vars, cloud_vars, toggle_vars, table_vars, batch_vars, gui_vars>>

RunCloudiness ==
    /\ run_pc = "check_cloudiness"
    /\ Call(check_cloudiness_columns(run_columns), "save")
    /\ UNCHANGED <<smooth_vars, cloud_vars, toggle_vars, table_vars, batch_vars, gui_vars>>

\* df_flags.to_csv(args.output, ...)
Save ==
    /\ run_pc = "save"
    /\ run_pc' = "saved"
    /\ UNCHANGED <<run_input, run_columns, run_written>>
    /\ UNCHANGED <<smooth_vars, cloud_vars, toggle_vars, table_vars, batch_vars, gui_vars>>

InitRun == RunInit /\ SmoothIdle /\ CloudIdle /\ ToggleIdle /\ TableIdle /\ BatchIdle /\ GuiIdle
NextRun ==
    \/ RunAddProblemFlags
    \/ RunDividedUndivided
    \/ RunFlagNumberOfLanes
    \/ RunSignsTimePairs
    \/ RunConstructionZone
    \/ RunIllumination
    \/ RunCloudiness
    \/ Save
SpecRun == InitRun /\ [][NextRun]_vars

\* ------------------------------------------------ submit_batches: main
\* The base directory is empty when the script starts, so a file of an
\* iteration exists only if this run wrote it; the initial ids file is there
\* or not.
BatchInit ==
    /\ iteration = 1
    /\ batch_ids \in {NoFile} \cup (0..MaxBatches)
    /\ invalid_results = NoFile
    /\ written = NoFile
    /\ not_completed = 0
    /\ not_downloaded = 0
    /\ submission = "none"
    /\ bpc = "extract"

\* extract_api_results(sess, iteration, ...): no ids file, return; else each
\* batch is skipped as not completed, skipped on an error (no output_file_id,
\* download failed), or downloaded and its invalid lines written
ExtractApiResults ==
    /\ bpc = "extract"
    /\ IF batch_ids = NoFile
       THEN UNCHANGED <<invalid_results, not_completed, not_downloaded>>
       ELSE \E waiting \in 0..batch_ids :
                \E failed \in 0..(batch_ids - waiting) :
                    \E invalid \in 0..MaxInvalid :
                        /\ (batch_ids - waiting - failed = 0) => invalid = 0
                        /\ not_completed' = waiting
                        /\ not_downloaded' = failed
                        /\ invalid_results' = invalid
    /\ bpc' = "loop"
    /\ UNCHANGED <<iteration, batch_ids, written, submission>>
    /\ UNCHANGED <<smooth_vars, cloud_vars, toggle_vars, table_vars, run_vars, gui_vars>>

\* the invalid-results file of the iteration exists and is not empty
has_invalid(n) == n # NoFile /\ n > 0

\* while True: ... iteration += 1 and the files of the new iteration
NextIteration ==
    /\ bpc = "loop"
    /\ has_invalid(invalid_results)
    /\ iteration < MaxIteration
    /\ iteration' = iteration + 1
    /\ bpc' = "create"
    /\ UNCHANGED <<batch_ids, invalid_results, written, not_completed,
                   not_downloaded, submission>>
    /\ UNCHANGED <<smooth_vars, cloud_vars, toggle_vars, table_vars, run_vars, gui_vars>>

\* create_batch_file(iteration, ...): one request per invalid line of the
\* previous iteration whose custom_id is among the original requests
CreateBatchFile ==
    /\ bpc = "create"
    /\ written' \in 0..invalid_results
    /\ bpc' = "submit"
    /\ UNCHANGED <<iteration, batch_ids, invalid_results, not_completed,
                   not_downloaded, submission>>
    /\ UNCHANGED <<smooth_vars, cloud_vars, toggle_vars, table_vars, run_vars, gui_vars>>

\* submit_batch(sess, iteration, ...): the ids file of the iteration is
\* written only when the batch is submitted
SubmitBatch ==
    /\ bpc = "submit"
    /\ IF written = 0
       THEN submission' = "nothing to submit"
       ELSE submission' \in {"upload failed", "submission failed", "submitted"}
    /\ batch_ids' = IF submission' = "submitted" THEN 1 ELSE NoFile
    /\ invalid_results' = NoFile
    /\ not_completed' = 0
    /\ not_downloaded' = 0
    /\ bpc' = "extract"
    /\ UNCHANGED <<iteration, written>>
    /\ UNCHANGED <<smooth_vars, cloud_vars, toggle_vars, table_vars, run_vars, gui_vars>>

\* else: log "[done] All JSON entries are valid after iteration N"; break
Done ==
    /\ bpc = "loop"
    /\ ~has_invalid(invalid_results)
    /\ bpc' = "done"
    /\ UNCHANGED <<iteration, batch_ids, invalid_results, written, not_completed,
                   not_downloaded, submission>>
    /\ UNCHANGED <<smooth_vars, cloud_vars, toggle_vars, table_vars, run_vars, gui_vars>>

InitBatch == BatchInit /\ SmoothIdle /\ CloudIdle /\ ToggleIdle /\ TableIdle /\ RunIdle /\ GuiIdle
NextBatch ==
    \/ ExtractApiResults
    \/ NextIteration
    \/ CreateBatchFile
    \/ SubmitBatch
    \/ Done
SpecBatch == InitBatch /\ [][NextBatch]_vars

\* ------------------------------------------------ the review app
\* One session of the review app.  Streamlit runs main from its first line on
\* every interaction: a click runs the script up to the clicked button's
\* branch, and st.rerun() runs it again with the session state the branch left.
MaxSamples == 4  \* rows of the reviewed table

\* get_annotable_samples: the positions of the rows with a flag, increasing
IndexLists ==
    {s \in SeqsUpTo(0..(MaxSamples - 1), 1, MaxSamples) :
        \A i \in 1..(Len(s) - 1) : s[i] < s[i + 1]}

\* st.session_state.index[c] is a position of the list
in_range(idx, c) == c >= 0 /\ c < Len(idx)

\* the line that loads the sample: "displayed", or the IndexError it raises
load_sample(idx, c) == IF in_range(idx, c) THEN "displayed" ELSE "IndexError"

\* a run of the script from its first line with counter c: config's
\* last_index is set to the counter and saved, then the sample is loaded
RunScript(c) ==
    /\ last_index' = c
    /\ gui_pc' = load_sample(indexes, c)

GuiInit ==
    /\ indexes \in IndexLists
    /\ counter \in 0..(Len(indexes) - 1)
    /\ last_index = counter
    /\ visited = {}
    /\ gui_pc = "displayed"

\* "Save & Next": the row is marked visited and written, the counter moves
\* on; past the last sample the config is saved as this run has it and the
\* script stops, else the script is run again
SaveAndNext ==
    /\ gui_pc = "displayed"
    /\ visited' = visited \cup {At(indexes, counter)}
    /\ counter' = counter + 1
    /\ IF counter' >= Len(indexes)
       THEN /\ last_index' = counter
            /\ gui_pc' = "stopped"
       ELSE RunScript(counter')
    /\ UNCHANGED indexes
    /\ UNCHANGED <<smooth_vars, cloud_vars, toggle_vars, table_vars, run_vars, batch_vars>>

\* "Previous"
Previous ==
    /\ gui_pc = "displayed"
    /\ counter' = IF counter > 0 THEN counter - 1 ELSE counter
    /\ RunScript(counter')
    /\ UNCHANGED <<indexes, visited>>
    /\ UNCHANGED <<smooth_vars, cloud_vars, toggle_vars, table_vars, run_vars, batch_vars>>

\* "Skip"
Skip ==
    /\ gui_pc = "displayed"
    /\ counter' = counter + 1
    /\ RunScript(counter')
    /\ UNCHANGED <<indexes, visited>>
    /\ UNCHANGED <<smooth_vars, cloud_vars, toggle_vars, table_vars, run_vars, batch_vars>>

\* a slider is moved: the script runs again with the session's counter.  The
\* sliders are drawn before the sample is loaded, so they are on the page
\* after st.stop() and after an exception too.
AdjustSlider ==
    /\ gui_pc \in {"displayed", "stopped", "IndexError"}
    /\ RunScript(counter)
    /\ UNCHANGED <<indexes, counter, visited>>
    /\ UNCHANGED <<smooth_vars, cloud_vars, toggle_vars, table_vars, run_vars, batch_vars>>

\* the app is started again: a new session takes its counter from the saved
\* config, and the table from the file that Save & Next wrote
Restart ==
    /\ gui_pc \in {"displayed", "stopped", "IndexError"}
    /\ counter' = last_index
    /\ RunScript(counter')
    /\ UNCHANGED <<indexes, visited>>
    /\ UNCHANGED <<smooth_vars, cloud_vars, toggle_vars, table_vars, run_vars, batch_vars>>

InitGui ==
    GuiInit /\ SmoothIdle /\ CloudIdle /\ ToggleIdle /\ TableIdle /\ RunIdle /\ BatchIdle
NextGui ==
    \/ SaveAndNext
    \/ Previous
    \/ Skip
    \/ AdjustSlider
    \/ Restart
SpecGui == InitGui /\ [][NextGui]_vars

\* ------------------------------------------------ smoother properties
\* p..q (1-based) is a block of s: a maximal run of equal values
MaxRun(s, p, q) ==
    /\ 1 <= p /\ p <= q /\ q <= Len(s)
    /\ \A k \in p..q : s[k] = s[p]
    /\ (p > 1 => s[p - 1] # s[p])
    /\ (q < Len(s) => s[q + 1] # s[p])

\* C1: run-length smoothing is idempotent: correct_yes_no_sequence applied to
\* its own result with the same threshold returns that result.
C1_YesNoIdempotent ==
    (spc = "reapplied" /\ smoother = "yes_no") => twice = once

C1_Witness ==
    /\ spc = "reapplied" /\ smoother = "yes_no"
    /\ once # sequence
    /\ \E p \in 2..Len(once) : once[p] # once[p - 1]

\* C2: spike removal and blip removal (missing values included) are
\* idempotent: correct_number_of_lanes and correct_horizontal_plane applied to
\* their own result with the same threshold return that result.
C2_SpikeBlipIdempotent ==
    (spc = "reapplied" /\ smoother \in {"lanes", "plane"}) => twice = once

C2_Witness ==
    /\ spc = "reapplied" /\ smoother = "plane"
    /\ once # sequence
    /\ \E p \in 1..Len(sequence) : isna(sequence[p])

\* C3: in the result of run-length smoothing with threshold K every block
\* that does not start at index 0 has length >= K.
C3_YesNoNoShortBlock ==
    (spc # "ready" /\ smoother = "yes_no") =>
        \A p \in 2..Len(once) : \A q \in p..Len(once) :
            MaxRun(once, p, q) => q - p + 1 >= min_consecutive

C3_Witness ==
    /\ spc = "applied" /\ smoother = "yes_no"
    /\ min_consecutive >= 2
    /\ once # sequence
    /\ \E p \in 2..Len(once) : once[p] # once[p - 1]

\* C4: in the result of spike removal with threshold K every block that has
\* an element before it and an element after it has length >= K.
C4_LanesNoIsolatedShortBlock ==
    (spc # "ready" /\ smoother = "lanes") =>
        \A p \in 2..Len(once) : \A q \in p..(Len(once) - 1) :
            MaxRun(once, p, q) => q - p + 1 >= min_consecutive

C4_Witness ==
    /\ spc = "applied" /\ smoother = "lanes"
    /\ min_consecutive >= 2
    /\ once # sequence
    /\ \E p \in 2..Len(once) : \E q \in p..(Len(once) - 1) : MaxRun(once, p, q)

\* C5: each smoother returns a list as long as its argument and leaves the
\* list it was given as it was.
C5_SameLengthArgumentUntouched ==
    [][ /\ (spc = "ready" /\ spc' = "applied") =>
              (sequence' = sequence /\ Len(once') = Len(sequence))
        /\ (spc = "applied" /\ spc' = "reapplied") =>
              (once' = once /\ sequence' = sequence /\ Len(twice') = Len(once))
      ]_vars

C5_Witness ==
    /\ spc = "reapplied"
    /\ Len(sequence) = MaxLen
    /\ once # sequence

\* ------------------------------------------------ cloudiness properties
\* the three columns of a scene whose rows encode the states sts, one field
\* "Yes" per row
OneHot(sts) ==
    [clear |-> [j \in 1..Len(sts) |-> IF sts[j] = Clear THEN "Yes" ELSE "No"],
     partly |-> [j \in 1..Len(sts) |-> IF sts[j] = Partly THEN "Yes" ELSE "No"],
     overcast |-> [j \in 1..Len(sts) |-> IF sts[j] = Overcast THEN "Yes" ELSE "No"]]

Rows == 0..(Len(df.clear) - 1)

\* row j has exactly one field "Yes" after zig-zag pre-smoothing
ValidAfterSmoothing(j) ==
    active_count(At(clear_seq, j), At(partly_seq, j), At(overcast_seq, j)) = 1

StateAfterSmoothing(j) ==
    first_active(At(clear_seq, j), At(partly_seq, j), At(overcast_seq, j))

\* C6 as stated: in the scene Clear, Overcast, Clear the Overcast row is
\* labelled 'Clear <-> Overcast must go through PartlyCloudy'.
C6_OvercastRowFlagged ==
    (cpc = "done" /\ df = OneHot(<<Clear, Overcast, Clear>>)) =>
        At(out.check, 1) = MUST_GO_THROUGH

\* C6 amended: in the scene Clear, Overcast, Clear zig-zag pre-smoothing
\* rewrites the Overcast row to Clear, the resolved states are Clear, Clear,
\* Clear and every row, the Overcast row included, is labelled 'OK'.
C6_OvercastRowSmoothedAway ==
    (cpc = "done" /\ df = OneHot(<<Clear, Overcast, Clear>>)) =>
        /\ At(out.clear, 1) = "Yes" /\ At(out.partly, 1) = "No"
        /\ At(out.overcast, 1) = "No"
        /\ state_seq = <<Clear, Clear, Clear>>
        /\ out.check = <<OK, OK, OK>>

C6_Witness ==
    cpc = "done" /\ df = OneHot(<<Clear, Overcast, Clear>>)

\* C7: in the scene Clear, Clear, Overcast, Clear, Clear the Overcast row
\* (index 2) is labelled 'OK'.
C7_DetourRowOK ==
    (cpc = "done" /\ df = OneHot(<<Clear, Clear, Overcast, Clear, Clear>>)) =>
        At(out.check, 2) = OK

C7_Witness ==
    /\ cpc = "done" /\ df = OneHot(<<Clear, Clear, Overcast, Clear, Clear>>)
    /\ Len(out.check) = 5

\* the last row before j that is valid after pre-smoothing
LastValidBefore(j) ==
    CHOOSE k \in Rows : /\ k < j /\ ValidAfterSmoothing(k)
                        /\ \A m \in Rows : (k < m /\ m < j) => ~ValidAfterSmoothing(m)

\* C8: a row that is invalid after pre-smoothing and has a valid row before
\* it is rewritten to the one-hot encoding of the most recent valid state and
\* ends labelled 'OK'; every row from the first valid row on ends with exactly
\* one field 'Yes'.
C8_EnforcementSilentAndExclusive ==
    cpc = "done" =>
        \A j \in Rows :
            /\ (/\ ~ValidAfterSmoothing(j)
                /\ \E k \in Rows : k < j /\ ValidAfterSmoothing(k)) =>
                   LET s == StateAfterSmoothing(LastValidBefore(j))
                   IN  /\ At(out.clear, j) = (IF s = Clear THEN "Yes" ELSE "No")
                       /\ At(out.partly, j) = (IF s = Partly THEN "Yes" ELSE "No")
                       /\ At(out.overcast, j) = (IF s = Overcast THEN "Yes" ELSE "No")
                       /\ At(out.check, j) = OK
            /\ (\E k \in Rows : k <= j /\ ValidAfterSmoothing(k)) =>
                   active_count(At(out.clear, j), At(out.partly, j),
                                At(out.overcast, j)) = 1

C8_Witness ==
    /\ cpc = "done"
    /\ \E j \in Rows :
           /\ ~ValidAfterSmoothing(j)
           /\ \E k \in Rows : k < j /\ ValidAfterSmoothing(k)
           /\ active_count(At(clear_seq, j), At(partly_seq, j),
                           At(overcast_seq, j)) = 2
           /\ At(out.clear, j) # At(clear_seq, j)

\* C9: a row is labelled 'Cloudiness inconsistency: multiple or none active'
\* iff neither it nor any earlier row is valid after pre-smoothing; these rows
\* form a prefix, keep their pre-smoothed fields, and the label set by step 2
\* is still there after step 3.
C9_InconsistencyIffNoValidYet ==
    cpc \in {"enforced", "done"} =>
        \A j \in Rows :
            /\ At(out.check, j) = INCONSISTENT
                   <=> (\A k \in Rows : k <= j => ~ValidAfterSmoothing(k))
            /\ At(out.check, j) = INCONSISTENT =>
                   /\ \A k \in Rows : k < j => At(out.check, k) = INCONSISTENT
                   /\ At(out.clear, j) = At(clear_seq, j)
                   /\ At(out.partly, j) = At(partly_seq, j)
                   /\ At(out.overcast, j) = At(overcast_seq, j)
                   /\ At(state_seq, j) = Invalid

C9_Witness ==
    /\ cpc = "done"
    /\ \E j \in Rows :
           /\ At(out.check, j) = INCONSISTENT
           /\ \E k \in Rows : k > j + 1 /\ At(out.check, k) = MUST_GO_THROUGH

\* the condition of C10 on the resolved state sequence, at row j >= 1
IllegalTransitionAt(j) ==
    /\ At(state_seq, j - 1) # Invalid
    /\ At(state_seq, j) # Invalid
    /\ abs(At(state_seq, j) - At(state_seq, j - 1)) = 2
    /\ ~(/\ j >= 2
         /\ j + 1 <= Len(state_seq) - 1
         /\ At(state_seq, j - 2) = At(state_seq, j - 1)
         /\ At(state_seq, j + 1) = At(state_seq, j - 1))

\* C10: row j >= 1 is labelled 'Clear <-> Overcast must go through
\* PartlyCloudy' iff st[j-1] and st[j] are valid, differ by 2, and the jump is
\* not a one-sample detour (j >= 2, j+1 in the scene, st[j-2] = st[j-1] =
\* st[j+1]); row 0 is never so labelled, nor is a row whose transition starts
\* or ends in PartlyCloudy.
C10_TransitionLegality ==
    cpc = "done" =>
        /\ At(out.check, 0) # MUST_GO_THROUGH
        /\ \A j \in Rows \ {0} :
               /\ At(out.check, j) = MUST_GO_THROUGH <=> IllegalTransitionAt(j)
               /\ (At(state_seq, j) = Partly \/ At(state_seq, j - 1) = Partly)
                      => At(out.check, j) # MUST_GO_THROUGH

C10_Witness ==
    /\ cpc = "done"
    /\ \E j \in Rows \ {0} : At(out.check, j) = MUST_GO_THROUGH
    /\ \E j \in Rows \ {0} :
           /\ abs(At(state_seq, j) - At(state_seq, j - 1)) = 2
           /\ At(state_seq, j) # Invalid /\ At(state_seq, j - 1) # Invalid
           /\ At(out.check, j) = OK

\* ------------------------------------------------ local toggle properties
\* the window (s[i-1], s[i], s[i+1]) at an interior index i
WindowMatches(s, i, a, b, c) ==
    /\ 1 <= i /\ i <= Len(s) - 2
    /\ At(s, i - 1) = a /\ At(s, i) = b /\ At(s, i + 1) = c

Labelled(labels, i) == At(labels, i) # OK

\* C13: get_issue_labels returns one label per element; index i is labelled
\* iff its window matches and index i-1 is not labelled, with 'Immediate
\* exit/re-entry' for (Yes, No, Yes) and 'Immediate entry/exit' for (No, Yes,
\* No); every other index is 'OK' and no two adjacent indices are labelled.
C13_ToggleLabels ==
    tg_pc = "labelled" =>
        /\ Len(tg_labels) = Len(tg_sequence)
        /\ \A i \in 0..(Len(tg_sequence) - 1) :
               /\ At(tg_labels, i) = EXIT_REENTRY <=>
                      /\ WindowMatches(tg_sequence, i, "Yes", "No", "Yes")
                      /\ (i >= 1 => ~Labelled(tg_labels, i - 1))
               /\ At(tg_labels, i) = ENTRY_EXIT <=>
                      /\ WindowMatches(tg_sequence, i, "No", "Yes", "No")
                      /\ (i >= 1 => ~Labelled(tg_labels, i - 1))
               /\ At(tg_labels, i) \in {OK, EXIT_REENTRY, ENTRY_EXIT}
               /\ (i >= 1 /\ Labelled(tg_labels, i)) => ~Labelled(tg_labels, i - 1)

C13_Witness ==
    /\ tg_pc = "labelled"
    /\ \E i \in 1..(Len(tg_sequence) - 3) :
           /\ At(tg_labels, i) = EXIT_REENTRY
           /\ WindowMatches(tg_sequence, i + 1, "No", "Yes", "No")
           /\ At(tg_labels, i + 1) = OK
           /\ At(tg_labels, i + 2) = EXIT_REENTRY

\* ------------------------------------------------ check column properties
TableRows == 0..(Len(tb_df) - 1)

\* the labels a check can write
ToggleLabels == {OK, EXIT_REENTRY, ENTRY_EXIT}
LaneLabels == {LANES_OK} \cup {LaneLabel(x, n) : x \in {ADDITION, REDUCTION}, n \in 2..9}

\* C11: after a check has run, every row of the table, rows with a missing
\* scene identifier included, has 'OK' or one of the check's reasons in the
\* check's column, never a missing value.
C11_EveryRowLabelled ==
    tb_pc = "checked" =>
        /\ Len(tb_out) = Len(tb_df)
        /\ \A i \in TableRows :
               CASE tb_check = "toggle" -> At(tb_out, i).check \in ToggleLabels
                 [] tb_check = "lanes" -> At(tb_out, i).check \in LaneLabels
                 [] tb_check = "cloudiness" ->
                        At(tb_out, i).check \in {OK, INCONSISTENT, MUST_GO_THROUGH}
                 [] OTHER -> TRUE

\* the previous row of row i's scene, if any: its index label
HasPredecessor(i) ==
    /\ ~isna(At(tb_df, i).Scene)
    /\ \E k \in TableRows : k < i /\ At(tb_df, k).Scene = At(tb_df, i).Scene

Predecessor(i) ==
    CHOOSE k \in TableRows :
        /\ k < i /\ At(tb_df, k).Scene = At(tb_df, i).Scene
        /\ \A m \in TableRows :
               (k < m /\ m < i) => At(tb_df, m).Scene # At(tb_df, i).Scene

\* twice the difference between row i and its predecessor, both numbers
Diff2(i) == At(tb_df, i).lanes.v2 - At(tb_df, Predecessor(i)).lanes.v2

BothNumeric(i) ==
    /\ At(tb_df, i).lanes.kind = "num"
    /\ At(tb_df, Predecessor(i)).lanes.kind = "num"

\* C14 as stated: a row is labelled 'Sudden addition/reduction of N lanes'
\* exactly when it has a predecessor in its scene, both values are numeric and
\* they differ by N >= 2; every other row is 'OK'.
C14_LabelNIsTheDifference ==
    (tb_pc = "checked" /\ tb_check = "lanes") =>
        \A i \in TableRows :
            LET lbl == At(tb_out, i).check
            IN  /\ lbl # LANES_OK <=>
                       (HasPredecessor(i) /\ BothNumeric(i) /\ abs(Diff2(i)) >= 4)
                /\ lbl # LANES_OK =>
                       /\ lbl.text = (IF Diff2(i) > 0 THEN ADDITION ELSE REDUCTION)
                       /\ 2 * lbl.n = abs(Diff2(i))

\* C14 amended: ... they differ by at least 2, and N is the integer part of
\* the absolute difference; every other row is 'OK'.
C14_LabelNIsTheIntegerPart ==
    (tb_pc = "checked" /\ tb_check = "lanes") =>
        \A i \in TableRows :
            LET lbl == At(tb_out, i).check
            IN  /\ lbl # LANES_OK <=>
                       (HasPredecessor(i) /\ BothNumeric(i) /\ abs(Diff2(i)) >= 4)
                /\ lbl # LANES_OK =>
                       /\ lbl.text = (IF Diff2(i) > 0 THEN ADDITION ELSE REDUCTION)
                       /\ 2 * lbl.n <= abs(Diff2(i))
                       /\ abs(Diff2(i)) < 2 * (lbl.n + 1)
                /\ (~HasPredecessor(i) \/ ~BothNumeric(i)) => lbl = LANES_OK

C14_Witness ==
    /\ tb_pc = "checked" /\ tb_check = "lanes"
    /\ \E i \in TableRows :
           /\ At(tb_out, i).check = LaneLabel(ADDITION, 2)
           /\ Predecessor(i) < i - 1
           /\ Diff2(i) = 5

\* ------------------------------------------------ row-wise check properties
Present(v) == ~isna(v)

\* C15: the Divided/Undivided check and the Day/Night check flag a row exactly
\* when both fields are present on the row and hold the same value; any other
\* row is 'OK'.  The label is a function of the row's own two values.
C15_FlaggedIffBothPresentAndEqual ==
    tb_pc = "checked" =>
        /\ tb_check = "divided" =>
               \A i \in TableRows :
                   LET r == At(tb_df, i)
                   IN  At(tb_out, i).check =
                           IF Present(r.divided) /\ Present(r.undivided)
                              /\ r.divided = r.undivided
                           THEN DIVIDED_INCONSISTENT ELSE OK
        /\ tb_check = "illumination" =>
               \A i \in TableRows :
                   LET r == At(tb_df, i)
                   IN  At(tb_out, i).check =
                           IF Present(r.day) /\ Present(r.night) /\ r.day = r.night
                           THEN ILLUMINATION_INCONSISTENT ELSE OK

\* two rows with the same values, one flagged pair and one mixed pair
C15_Witness ==
    /\ tb_pc = "checked" /\ tb_check = "illumination" /\ Len(tb_df) = 2
    /\ At(tb_df, 0).day = "No" /\ At(tb_df, 0).night = "No"
    /\ At(tb_out, 0).check = ILLUMINATION_INCONSISTENT
    /\ At(tb_df, 1).day = NaN /\ At(tb_df, 1).night = NaN
    /\ At(tb_out, 1).check = OK

\* what a cell is read as: a list of some length, or no list
ParsesAsList(x) == x.kind \in {"list", "json_list", "py_list"}

\* C16: a row where either value does not parse as a list (a missing value
\* included) is labelled with the parse error whatever the other value is;
\* otherwise a row whose lengths differ is labelled with the mismatch and both
\* lengths; otherwise 'OK'.
C16_ParseErrorFirst ==
    (tb_pc = "checked" /\ tb_check = "signs") =>
        /\ Len(tb_out) = Len(tb_df)
        /\ \A i \in TableRows :
               LET r == At(tb_df, i)
                   lbl == At(tb_out, i).check
               IN  IF ~ParsesAsList(r.signs) \/ ~ParsesAsList(r.times)
                   THEN lbl = PARSE_ERROR
                   ELSE IF r.signs.n # r.times.n
                   THEN lbl = PairLabel(LENGTH_MISMATCH, r.signs.n, r.times.n)
                   ELSE lbl = PAIR_OK

\* a row with a missing value beside a list of another length, and a row
\* with two lists of different lengths
C16_Witness ==
    /\ tb_pc = "checked" /\ tb_check = "signs" /\ Len(tb_df) = 2
    /\ At(tb_df, 0).signs = Cell("nan", 0)
    /\ At(tb_df, 0).times = Cell("json_list", 2)
    /\ At(tb_out, 0).check = PARSE_ERROR
    /\ At(tb_out, 1).check = PairLabel(LENGTH_MISMATCH, 1, 2)

\* C17: 'RoadWorks present but missing TemporaryRoadSignage' iff RoadWorks is
\* 'Yes' and Signage is 'No'; otherwise 'TemporaryLineMarkers present without
\* RoadWorks and Signage' iff LineMarkers is 'Yes' and RoadWorks and Signage
\* are 'No'; otherwise 'OK'.  A row whose Signage is 'Yes' is 'OK'.
C17_ConstructionZoneRules ==
    (tb_pc = "checked" /\ tb_check = "zone") =>
        \A i \in TableRows :
            LET r == At(tb_df, i)
                lbl == At(tb_out, i).check
            IN  /\ lbl = (IF r.roadworks = "Yes" /\ r.signage = "No"
                          THEN MISSING_SIGNAGE
                          ELSE IF r.linemarkers = "Yes" /\ r.roadworks = "No"
                                  /\ r.signage = "No"
                          THEN LINES_ALONE
                          ELSE OK)
                /\ r.signage = "Yes" => lbl = OK

C17_Witness ==
    /\ tb_pc = "checked" /\ tb_check = "zone" /\ Len(tb_df) = 2
    /\ At(tb_out, 0).check = LINES_ALONE
    /\ At(tb_df, 1).signage = "Yes" /\ At(tb_df, 1).linemarkers = "Yes"
    /\ At(tb_df, 1).roadworks = "No"
    /\ At(tb_out, 1).check = OK

\* ------------------------------------------------ missing-column properties
\* the columns a check requires, and the columns it writes when it runs
Requires ==
    [add_problem_flags |-> {"scene_col", "auto_col"},
     check_divided_undivided |-> {"divided_col", "undivided_col"},
     flag_number_of_lanes |-> {"scene_col", "lanes_col"},
     check_signs_time_pairs |-> {"signs_col", "times_col"},
     check_construction_zone |-> {"roadworks_col", "signage_col", "linemarkers_col"},
     check_illumination |-> {"day_col", "night_col"},
     check_cloudiness |-> {"scene_col"} \cup CloudColumns]

Writes ==
    [add_problem_flags |-> {"auto_col_check"},
     check_divided_undivided |-> {"divided_undivided_check"},
     flag_number_of_lanes |-> {"lanes_col_check"},
     check_signs_time_pairs |-> {"signs_col_pair_check"},
     check_construction_zone |-> {"roadworks_col_check"},
     check_illumination |-> {"day_night_check"},
     check_cloudiness |-> {"clear_col_check"} \cup CloudColumns]

\* C12: a check whose required columns (the scene column included, for the
\* per-scene checks) are not all in the table adds and changes nothing and
\* does not raise, and the other checks still run: the run never ends in an
\* exception, and the saved table has the columns of exactly the checks whose
\* required columns were there.
C12_MissingColumnsAreSkipped ==
    /\ run_pc # "raised"
    /\ run_pc = "saved" =>
           \A chk \in DOMAIN Requires :
               IF Requires[chk] \subseteq run_input
               THEN Writes[chk] \subseteq run_written
               ELSE Writes[chk] \cap run_written = {}

\* ------------------------------------------------ smoothing-by-scene properties
\* the rows of scene s, in table order, and the table made of them alone
SceneRows(s) == mask_idxs(tb_df, s)
SceneAlone(s) == [k \in 1..Len(SceneRows(s)) |-> At(tb_df, SceneRows(s)[k])]

\* what the smoother returns for scene s's values of the original column
Corrected(s) ==
    Smooth(smoother_of(tb_check), column_at(tb_df, SceneRows(s), "value"),
           min_cons(tb_check)).corrected

\* C18: smoothing writes only the shadow column: the original column (and the
\* scene column) hold the same values after smoothing as before; a row with a
\* missing scene, and a row of a scene at a position where the smoother
\* returns the value it was given, has a shadow value equal to its original.
C18_OriginalColumnPreserved ==
    tb_pc = "smoothed" =>
        /\ Len(tb_out) = Len(tb_df)
        /\ \A i \in TableRows :
               /\ DOMAIN At(tb_out, i) = {"Scene", "value", "auto"}
               /\ At(tb_out, i).value = At(tb_df, i).value
               /\ At(tb_out, i).Scene = At(tb_df, i).Scene
               /\ isna(At(tb_df, i).Scene) => At(tb_out, i).auto = At(tb_df, i).value
        /\ \A s \in Range(SceneTokens) :
               \A k \in 1..Len(SceneRows(s)) :
                   LET i == SceneRows(s)[k]
                   IN  Corrected(s)[k] = At(tb_df, i).value =>
                           At(tb_out, i).auto = At(tb_df, i).value

\* a smoothed table where a row was corrected, next to a row with a missing
\* scene
C18_Witness ==
    /\ tb_pc = "smoothed"
    /\ \E i \in TableRows : At(tb_out, i).auto # At(tb_df, i).value
    /\ \E i \in TableRows : isna(At(tb_df, i).Scene)

\* the operation of the state applied to a table
Processed(tbl) ==
    CASE tb_check = "toggle" -> add_problem_flags(tbl)
      [] tb_check = "lanes" -> flag_number_of_lanes(tbl)
      [] tb_check = "cloudiness" -> check_cloudiness_scene_switch(tbl)
      [] tb_check \in SmoothedColumns ->
             smooth_column(tbl, smoother_of(tb_check), min_cons(tb_check))

PerScene == {"toggle", "lanes", "cloudiness"} \cup SmoothedColumns

\* C19: in the table returned by a per-scene operation (smoothing, toggle,
\* lane jump, cloudiness), the rows of each scene are the rows obtained by
\* applying the operation to that scene's rows alone, in the same order; so
\* they depend on no row of another scene, wherever those rows lie.
C19_ScenesIndependent ==
    (tb_pc \in {"checked", "smoothed"} /\ tb_check \in PerScene) =>
        \A s \in Range(SceneTokens) :
            LET alone == Processed(SceneAlone(s))
            IN  \A k \in 1..Len(SceneRows(s)) :
                    At(tb_out, SceneRows(s)[k]) = alone[k]

\* scene A goes from Clear to Overcast around a PartlyCloudy row of scene B:
\* the Overcast row is flagged
C19_Witness ==
    /\ tb_pc = "checked" /\ tb_check = "cloudiness" /\ Len(tb_df) = 3
    /\ At(tb_df, 0).Scene = "A" /\ At(tb_df, 0).clear = "Yes"
    /\ At(tb_df, 1).Scene = "B" /\ At(tb_df, 1).partly = "Yes"
    /\ At(tb_df, 2).Scene = "A" /\ At(tb_df, 2).overcast = "Yes"
    /\ At(tb_out, 2).check = MUST_GO_THROUGH

\* ------------------------------------------------ batch script properties
\* C20: the script logs '[done] All JSON entries are valid' only when the
\* results of every batch submitted for the latest iteration have been
\* downloaded and none of them is invalid: not while a batch of the iteration
\* is not completed or was not downloaded, and not after the upload or the
\* submission for the outstanding invalid entries failed.
C20_DoneOnlyWhenAllValid ==
    bpc = "done" =>
        /\ not_completed = 0
        /\ not_downloaded = 0
        /\ ~has_invalid(invalid_results)
        /\ submission \notin {"upload failed", "submission failed"}

\* ------------------------------------------------ spike removal properties
\* the block p..q of the input was overwritten by the call
Overwritten(p, q) == \E k \in p..q : once[k] # sequence[k]

Interior(p, q) == p > 1 /\ q < Len(sequence)

\* C21 as stated: each block of the input is judged against the input values
\* of its neighbours: it is overwritten if and only if its length is < K and
\* its value differs from the input value before it and from the input value
\* after it.
C21_JudgedAgainstInputNeighbours ==
    (spc # "ready" /\ smoother = "lanes") =>
        \A p \in 1..Len(sequence) : \A q \in p..Len(sequence) :
            MaxRun(sequence, p, q) =>
                (Overwritten(p, q) <=>
                    /\ q - p + 1 < min_consecutive
                    /\ Interior(p, q)
                    /\ sequence[p] # sequence[p - 1]
                    /\ sequence[p] # sequence[q + 1])

\* C21 amended: each block of the input is judged against the value that is
\* before it when the scan reaches it (the value written over the previous
\* block if that block was overwritten) and the input value after it: it is
\* overwritten, with that value before it, if and only if its length is < K
\* and its value differs from both.
C21_JudgedAgainstCorrectedPredecessor ==
    (spc # "ready" /\ smoother = "lanes") =>
        \A p \in 1..Len(sequence) : \A q \in p..Len(sequence) :
            MaxRun(sequence, p, q) =>
                /\ Overwritten(p, q) <=>
                       /\ q - p + 1 < min_consecutive
                       /\ Interior(p, q)
                       /\ sequence[p] # once[p - 1]
                       /\ sequence[p] # sequence[q + 1]
                /\ Overwritten(p, q) => \A k \in p..q : once[k] = once[p - 1]
                /\ ~Overwritten(p, q) => \A k \in p..q : once[k] = sequence[k]

\* a short interior block kept because the block before it was overwritten
\* with the value it holds
C21_Witness ==
    /\ spc = "applied" /\ smoother = "lanes"
    /\ \E p \in 3..Len(sequence) : \E q \in p..(Len(sequence) - 1) :
           /\ MaxRun(sequence, p, q)
           /\ q - p + 1 < min_consecutive
           /\ once[p - 1] # sequence[p - 1]
           /\ once[p - 1] = sequence[p]
           /\ ~Overwritten(p, q)

\* ------------------------------------------------ zig-zag properties
CloudFields == {"clear", "partly", "overcast"}

\* a field's sequence as given to the check, and after step 1
Given(f) == df[f]
AfterStep1(f) ==
    CASE f = "clear" -> clear_seq
      [] f = "partly" -> partly_seq
      [] f = "overcast" -> overcast_seq

InteriorRows == 1..(Len(df.clear) - 2)

\* v[i-1] = v[i+1] and v[i] != v[i-1]
Flicker(v, i) == At(v, i - 1) = At(v, i + 1) /\ At(v, i) # At(v, i - 1)

\* C22 as stated: an interior index that is a flicker in the sequence as
\* given holds its neighbours' value after step 1 (the value they were given
\* with, or the value both hold after step 1); every other index is
\* unchanged.
C22_GivenFlickerSmoothed ==
    cpc # "input" =>
        \A f \in CloudFields :
            LET v == Given(f)
                w == AfterStep1(f)
            IN  /\ Len(w) = Len(v)
                /\ \A i \in Rows :
                       IF i \in InteriorRows /\ Flicker(v, i)
                       THEN \/ At(w, i) = At(v, i - 1)
                            \/ (At(w, i) = At(w, i - 1) /\ At(w, i) = At(w, i + 1))
                       ELSE At(w, i) = At(v, i)

\* C22 amended: the scan goes left to right over the list it rewrites: an
\* interior index holds, after step 1, the value left at i-1 when that value
\* equals the given value at i+1 and differs from the given value at i, and
\* its given value otherwise; the first and the last index are unchanged.
C22_FlickerAgainstRewrittenPredecessor ==
    cpc # "input" =>
        \A f \in CloudFields :
            LET v == Given(f)
                w == AfterStep1(f)
            IN  /\ Len(w) = Len(v)
                /\ \A i \in Rows :
                       IF i \in InteriorRows
                          /\ At(w, i - 1) = At(v, i + 1) /\ At(v, i) # At(w, i - 1)
                       THEN At(w, i) = At(w, i - 1)
                       ELSE At(w, i) = At(v, i)

\* an alternating field: the first flicker is smoothed and the next one, a
\* flicker in the sequence as given, is kept
C22_Witness ==
    /\ cpc = "smoothed"
    /\ \E f \in CloudFields : \E i \in InteriorRows :
           /\ i >= 2
           /\ Flicker(Given(f), i - 1) /\ Flicker(Given(f), i)
           /\ At(AfterStep1(f), i - 1) # At(Given(f), i - 1)
           /\ At(AfterStep1(f), i) = At(Given(f), i)

\* ------------------------------------------------ blip removal properties
\* a..b (1-based) is a maximal segment of s without a missing value
Segment(s, a, b) ==
    /\ 1 <= a /\ a <= b /\ b <= Len(s)
    /\ \A k \in a..b : ~isna(s[k])
    /\ (a > 1 => isna(s[a - 1]))
    /\ (b < Len(s) => isna(s[b + 1]))

\* C23: correct_horizontal_plane leaves a missing value exactly where the
\* input has one, and on each maximal segment without missing values it
\* returns what correct_number_of_lanes returns for that segment alone with
\* the same K.
C23_BlipIsSpikePerSegment ==
    (spc # "ready" /\ smoother = "plane") =>
        /\ Len(once) = Len(sequence)
        /\ \A k \in 1..Len(sequence) : isna(once[k]) <=> isna(sequence[k])
        /\ \A a \in 1..Len(sequence) : \A b \in a..Len(sequence) :
               Segment(sequence, a, b) =>
                   SubSeq(once, a, b) =
                       correct_number_of_lanes(SubSeq(sequence, a, b),
                                               min_consecutive).corrected

\* a sequence with a missing value inside, a block corrected in one segment
\* and a short block kept next to the missing value
C23_Witness ==
    /\ spc = "applied" /\ smoother = "plane"
    /\ min_consecutive >= 2
    /\ once # sequence
    /\ \E k \in 2..(Len(sequence) - 2) :
           /\ isna(sequence[k])
           /\ sequence[k + 1] # sequence[k - 1]
           /\ sequence[k + 2] # sequence[k + 1]
           /\ once[k + 1] = sequence[k + 1]

\* ------------------------------------------------ boundary properties
\* C24: no smoother changes the first element of a sequence, and spike
\* removal and blip removal never overwrite the block that ends at the last
\* element.
C24_BoundariesKept ==
    (spc # "ready" /\ Len(sequence) > 0) =>
        /\ once[1] = sequence[1]
        /\ smoother \in {"lanes", "plane"} =>
               \A p \in 1..Len(sequence) :
                   MaxRun(sequence, p, Len(sequence)) =>
                       \A k \in p..Len(sequence) : once[k] = sequence[k]

\* spike removal on a list that starts and ends with a short block that
\* differs from its one neighbour, and that has a block overwritten inside
C24_Witness ==
    /\ spc = "applied" /\ smoother = "lanes"
    /\ min_consecutive >= 2
    /\ Len(sequence) >= 4
    /\ sequence[1] # sequence[2]
    /\ sequence[Len(sequence)] # sequence[Len(sequence) - 1]
    /\ once # sequence
    /\ once[Len(sequence)] = sequence[Len(sequence)]

\* ------------------------------------------------ forward propagation
\* C25: in the result of correct_yes_no_sequence every element that differs
\* from the input element at its index equals the result's element just
\* before it, and the result holds no value that the input does not hold.
C25_OnlyForwardPropagation ==
    (spc # "ready" /\ smoother = "yes_no") =>
        /\ \A k \in 1..Len(sequence) :
               once[k] # sequence[k] => (k > 1 /\ once[k] = once[k - 1])
        /\ Range(once) \subseteq Range(sequence)

\* a block of two flipped: its second element differs from the input and
\* follows an element that was itself changed
C25_Witness ==
    /\ spc = "applied" /\ smoother = "yes_no"
    /\ \E k \in 3..Len(sequence) :
           /\ sequence[k] = sequence[k - 1]
           /\ once[k - 1] # sequence[k - 1]
           /\ once[k] # sequence[k]

\* ------------------------------------------------ composition properties
\* C26: for every Yes/No sequence and every threshold K >= 2, the toggle
\* check of the run-length-smoothed sequence is 'OK' at every index.
C26_SmoothedHasNoToggle ==
    (tg_pc = "labelled" /\ smoother = "yes_no" /\ min_consecutive >= 2) =>
        /\ tg_sequence = once
        /\ Len(tg_labels) = Len(once)
        /\ \A k \in 1..Len(tg_labels) : tg_labels[k] = OK

\* a sequence the toggle check would flag as given, smoothed and labelled
C26_Witness ==
    /\ tg_pc = "labelled" /\ smoother = "yes_no" /\ min_consecutive >= 2
    /\ \E k \in 1..Len(sequence) : get_issue_labels(sequence)[k] # OK
    /\ once # sequence

\* ------------------------------------------------ legal cloudiness input
\* the state of row j of the scene as given, when exactly one field is 'Yes'
GivenValid(j) ==
    active_count(At(df.clear, j), At(df.partly, j), At(df.overcast, j)) = 1
GivenState(j) ==
    first_active(At(df.clear, j), At(df.partly, j), At(df.overcast, j))

\* every row has exactly one field 'Yes' and no two consecutive rows are
\* Clear and Overcast
LegalInput ==
    /\ \A j \in Rows : GivenValid(j)
    /\ \A j \in Rows : j >= 1 => abs(GivenState(j) - GivenState(j - 1)) # 2

\* C27: on a legal input the cloudiness check labels every row 'OK'.
C27_LegalInputAllOK ==
    (cpc = "done" /\ LegalInput) => \A j \in Rows : At(out.check, j) = OK

C27_Witness ==
    /\ cpc = "done" /\ LegalInput
    /\ Len(df.clear) = MaxRows
    /\ \E j \in Rows : GivenState(j) = Clear
    /\ \E j \in Rows : GivenState(j) = Overcast

\* ------------------------------------------------ detour properties
\* the transition into row j is a Clear <-> Overcast jump that the rule
\* exempts as a one-sample detour
ExemptedAt(j) ==
    /\ At(state_seq, j - 1) # Invalid
    /\ At(state_seq, j) # Invalid
    /\ abs(At(state_seq, j) - At(state_seq, j - 1)) = 2
    /\ j >= 2
    /\ j + 1 <= Len(state_seq) - 1
    /\ At(state_seq, j - 2) = At(state_seq, j - 1)
    /\ At(state_seq, j + 1) = At(state_seq, j - 1)

\* C28: when the transition rule exempts the jump into row j as a one-sample
\* detour, the return into row j+1 is a Clear <-> Overcast jump that is not
\* exempted, and row j+1 is labelled 'Clear <-> Overcast must go through
\* PartlyCloudy'.
C28_ReturnFromDetourFlagged ==
    cpc = "done" =>
        \A j \in Rows \ {0} :
            ExemptedAt(j) =>
                /\ abs(At(state_seq, j + 1) - At(state_seq, j)) = 2
                /\ ~ExemptedAt(j + 1)
                /\ At(out.check, j) # MUST_GO_THROUGH
                /\ At(out.check, j + 1) = MUST_GO_THROUGH

\* resolved states Clear, Clear, Clear, Overcast, Clear: the jump into row 3
\* is exempted and the return into row 4 is flagged
C28_Witness ==
    /\ cpc = "done"
    /\ state_seq = <<Clear, Clear, Clear, Overcast, Clear>>
    /\ ExemptedAt(3)
    /\ At(out.check, 3) = OK
    /\ At(out.check, 4) = MUST_GO_THROUGH

\* ------------------------------------------------ complementary fields
\* the two fields of every row of tbl are one 'Yes' and one 'No'
Complementary(tbl, f, g) ==
    \A i \in 1..Len(tbl) :
        /\ tbl[i][f] \in YesNo /\ tbl[i][g] \in YesNo
        /\ tbl[i][f] # tbl[i][g]

\* C29: two sequences of a scene that are complementary at every sample are
\* still complementary after each is run-length smoothed under its column's
\* threshold (the same for both), and the pair check of the smoothed columns
\* labels every row 'OK'.
C29_ComplementaryStaysComplementary ==
    (tb_check \in PairChecks /\ tb_pc \in {"smoothed", "checked"}
     /\ Complementary(tb_df, first_field(tb_check), second_field(tb_check))) =>
        /\ Len(tb_out) = Len(tb_df)
        /\ Complementary(tb_out, first_field(tb_check), second_field(tb_check))
        /\ tb_pc = "checked" => \A i \in 1..Len(tb_out) : tb_out[i].check = OK

\* a complementary pair that the smoothing changes, checked
C29_Witness ==
    /\ tb_check = "pair_divided" /\ tb_pc = "checked"
    /\ Complementary(tb_df, "divided", "undivided")
    /\ \E i \in 1..Len(tb_df) : tb_out[i].divided # tb_df[i].divided
    /\ \E i \in 1..Len(tb_df) : \E k \in 1..Len(tb_df) :
           tb_out[i].divided # tb_out[k].divided

\* ------------------------------------------------ review app navigation
\* C30: started with a counter within 0 .. len(indexes)-1, after any clicks
\* of Save & Next, Previous and Skip the app never loads a sample with the
\* counter outside 0 .. len(indexes)-1, and the last_index it has saved is
\* within that range, so that the app can be started again from it.
C30_CounterStaysInRange ==
    gui_pc # "idle" =>
        /\ gui_pc # "IndexError"
        /\ gui_pc = "displayed" => in_range(indexes, counter)
        /\ in_range(indexes, last_index)

\* Skip was clicked on the last sample
C30_Witness ==
    /\ gui_pc = "IndexError"
    /\ counter = Len(indexes)
    /\ last_index = Len(indexes)
    /\ visited = {}

====
